---- MODULE Spec2Model ----
(***************************************************************************)
(* Model of the tutorial notebooks of SIGNATURE-LLM-FINAL.                 *)
(*                                                                         *)
(* Notebook 2 (2_Preprocessing_and_Cell2Sentence.ipynb) is a straight-line *)
(* program: its code cells run top to bottom, each to completion.  `pc2`   *)
(* is the position of the kernel in that notebook.  The expression matrix  *)
(* adata.X is changed by two cells only (the log-base change and the clamp *)
(* of negative values) and is then written to ./data/pbmc3k_final.h5ad,    *)
(* which notebooks 3 to 6 read with anndata.read_h5ad.                     *)
(*                                                                         *)
(* Expression values are floats in the program.  They are modelled in      *)
(* fixed point, in hundredths: the integer v stands for v / 100.           *)
(*                                                                         *)
(* The functions of the cell2sentence package (adata_to_arrow,             *)
(* reconstruct_expression_from_cell_sentence, ...) are called by the       *)
(* notebooks but their code is not part of the repository; the model holds *)
(* no definition of what they compute.                                     *)
(***************************************************************************)
EXTENDS Integers, FiniteSets, Sequences, TLC

\* Number of cells (rows of adata.X) of the modelled dataset.
NumCells == 2

Cells == 1..NumCells

\* The genes (columns of adata.X) of the modelled dataset.
Genes == {"g1", "g2"}

Pos == Cells \X Genes

\* Values an entry of pbmc3k_processed's matrix may hold, in hundredths:
\* the processed dataset is scaled and zero-centred, so entries of both
\* signs occur; -1 is a negative value that the division rounds to zero.
Vals == {-230, -1, 0, 460}

\* The notebooks that read ./data/pbmc3k_final.h5ad.
Readers == {3, 4, 5, 6}

\* "No file", "nothing loaded".
None == << >>

VARIABLES
    pc2,       \* position of the kernel in notebook 2
    orig,      \* the matrix as returned by sc.datasets.pbmc3k_processed()
    X,         \* adata.X of notebook 2
    sparse,    \* issparse(adata.X)
    stored,    \* sparse only: the positions whose value is stored in X.data
    csr,       \* sparse_matrix = csr_matrix(adata.X) of notebook 2
    file,      \* the matrix held by ./data/pbmc3k_final.h5ad, or None
    loaded     \* per reading notebook: adata.X after read_h5ad, or None

VARIABLES
    pcR,         \* position of the kernel in the benchmark / reconstruction cells
    metricsFile, \* Some(rows of c2s_transformation_metrics.csv), or None
    metricsDf,   \* Some(rows of metrics_df), or None while unbound
    slope,       \* slope, or None while unassigned
    intercept,   \* intercept, or None while unassigned
    calls        \* arguments of the reconstruct calls made so far, in order

VARIABLES
    sentence,    \* x["cell_sentence"] of one row of arrow_ds, a string
    before,      \* that row's sentence as adata_to_arrow returned it
    prev,        \* that row's sentence before the latest map
    k,           \* k of the truncation cell
    mapCount     \* how many times the map has been applied

VARIABLES
    stage,       \* per notebook 3..6: how far its pipeline has run
    kUsed,       \* per notebook: k the sentences of arrow_ds were cut to (0: not cut)
    nGenesArg    \* per notebook: n_genes / top_k_genes given to the model call (0: no call)

VARIABLES
    pcM,         \* position in the pathway-activity notebook
    obsm,        \* adata.obsm: key -> object identity (0: key absent)
    heap,        \* object identity -> the table it holds
    copied,      \* the tables held by mlm_estimate / mlm_pvals when they were copied
    lastRun,     \* the net of the latest run_mlm, or None
    runs         \* number of run_mlm calls so far

prepVars == <<pc2, orig, X, sparse, stored, csr, file, loaded>>

reconVars == <<pcR, metricsFile, metricsDf, slope, intercept, calls>>

topkVars == <<sentence, before, prev, k, mapCount>>

nbVars == <<stage, kUsed, nGenesArg>>

mlmVars == <<pcM, obsm, heap, copied, lastRun, runs>>

\* Notebooks 4 and 5: the fine-tuning session on disk and the checkpoint
\* that notebook 5 names.
VARIABLES pcT, now, outputDir, fs, created, tuned,
          pcL, modelFound, basePath, splitLoaded

ckptVars == <<pcT, now, outputDir, fs, created, tuned,
              pcL, modelFound, basePath, splitLoaded>>

\* Notebook 5: the accuracy loop over the predictions.
VARIABLES pcA, predicted_cell_types, cell_type, idxA, total_correct, accuracy

accVars == <<pcA, predicted_cell_types, cell_type, idxA, total_correct, accuracy>>

vars == <<prepVars, reconVars, topkVars, nbVars, mlmVars, ckptVars, accVars>>

\* Each group of cells is run as a specification of its own; the variables
\* of the other groups then keep the values below.
PrepIdle ==
    /\ pc2 = "idle"
    /\ orig = None /\ X = None /\ sparse = FALSE /\ stored = {}
    /\ csr = None /\ file = None /\ loaded = None

ReconIdle ==
    /\ pcR = "idle"
    /\ metricsFile = None /\ metricsDf = None
    /\ slope = None /\ intercept = None /\ calls = << >>

TopKIdle ==
    /\ sentence = None /\ before = None /\ prev = None
    /\ k = 0 /\ mapCount = 0

NbIdle ==
    /\ stage = None /\ kUsed = None /\ nGenesArg = None

MlmIdle ==
    /\ pcM = "idle"
    /\ obsm = None /\ heap = None /\ copied = None
    /\ lastRun = None /\ runs = 0

CkptIdle ==
    /\ pcT = "idle" /\ pcL = "idle"
    /\ now = None /\ outputDir = None
    /\ fs = {} /\ created = {} /\ tuned = {}
    /\ modelFound = FALSE /\ basePath = None /\ splitLoaded = None

AccIdle ==
    /\ pcA = "idle"
    /\ predicted_cell_types = None /\ cell_type = None
    /\ idxA = 0 /\ total_correct = 0 /\ accuracy = None

Abs(v) == IF v < 0 THEN -v ELSE v

Sign(v) == IF v < 0 THEN -1 ELSE IF v > 0 THEN 1 ELSE 0

\* x / np.log(10) on one value: ln 10 = 2.30 in hundredths, the quotient
\* rounded to the nearest representable value (half away from zero), as a
\* floating-point division rounds to nearest.  A small negative value may
\* round to zero; no value changes sign.
DivLn10(v) == Sign(v) * ((Abs(v) * 100 + 115) \div 230)

\* The mask assignment with the comparison reversed.
ClampWrong(v) == IF v > 0 THEN 0 ELSE v

\* The mask assignment  a[a < 0] = 0.0  on one value.
ClampValue(v) == IF v < 0 THEN 0 ELSE v

NoNegative(m) == \A p \in Pos : m[p] >= 0

\* adata = sc.datasets.pbmc3k_processed(): any matrix, dense or sparse.  A
\* sparse matrix stores its nonzero entries; the others are implicit zeros.
Init ==
    /\ pc2 = "loaded"
    /\ orig \in [Pos -> Vals]
    /\ X = orig
    /\ sparse \in BOOLEAN
    /\ stored = IF sparse THEN {p \in Pos : orig[p] # 0} ELSE Pos
    /\ csr = None
    /\ file = None
    /\ loaded = [nb \in Readers |-> None]
    /\ ReconIdle /\ TopKIdle /\ NbIdle /\ MlmIdle /\ CkptIdle /\ AccIdle

\* adata.X = adata.X / np.log(10): every stored value is divided; the
\* sparsity structure is kept.
LogBaseChange ==
    /\ pc2 = "loaded"
    /\ X' = [p \in Pos |-> IF p \in stored THEN DivLn10(X[p]) ELSE X[p]]
    /\ pc2' = "log10"
    /\ UNCHANGED <<orig, sparse, stored, csr, file, loaded>>
    /\ UNCHANGED <<reconVars, topkVars, nbVars, mlmVars, ckptVars, accVars>>

\* if issparse(adata.X): adata.X.data[adata.X.data < 0] = 0.0
\* else:                 adata.X[adata.X < 0] = 0.0
\* The sparse branch writes the stored values in place (the clamped entries
\* stay stored, as explicit zeros); the dense branch writes every entry.
ClampNegatives ==
    /\ pc2 = "log10"
    /\ X' = IF sparse
            THEN [p \in Pos |-> IF p \in stored THEN ClampValue(X[p]) ELSE X[p]]
            ELSE [p \in Pos |-> ClampValue(X[p])]
    /\ pc2' = "clamped"
    /\ UNCHANGED <<orig, sparse, stored, csr, file, loaded>>
    /\ UNCHANGED <<reconVars, topkVars, nbVars, mlmVars, ckptVars, accVars>>

\* adata.write_h5ad(SAVE_PATH) with SAVE_PATH = "./data/pbmc3k_final.h5ad".
WriteH5ad ==
    /\ pc2 = "clamped"
    /\ file' = X
    /\ pc2' = "saved"
    /\ UNCHANGED <<orig, X, sparse, stored, csr, loaded>>
    /\ UNCHANGED <<reconVars, topkVars, nbVars, mlmVars, ckptVars, accVars>>

\* sparse_matrix = csr_matrix(adata.X): a new matrix with the values of
\* adata.X, handed to benchmark_expression_conversion; adata.X is not
\* assigned.
CsrMatrix ==
    /\ pc2 = "saved"
    /\ csr' = X
    /\ pc2' = "benchmarked"
    /\ UNCHANGED <<orig, X, sparse, stored, file, loaded>>
    /\ UNCHANGED <<reconVars, topkVars, nbVars, mlmVars, ckptVars, accVars>>

\* The remaining cells of notebook 2 (reconstruction, the combined AnnData,
\* PCA / neighbors / UMAP on combined_adata, the plots): none assigns
\* adata.X; adata.uns, .obsm, .varm and .obsp are deleted and a column is
\* added to adata.obs.
RestOfNotebook2 ==
    /\ pc2 = "benchmarked"
    /\ pc2' = "done"
    /\ UNCHANGED <<orig, X, sparse, stored, csr, file, loaded>>
    /\ UNCHANGED <<reconVars, topkVars, nbVars, mlmVars, ckptVars, accVars>>

\* adata = anndata.read_h5ad(DATA_PATH) in notebooks 3 to 6, DATA_PATH =
\* "./data/pbmc3k_final.h5ad".  Without the file the call raises and binds
\* nothing.
ReadH5ad(nb) ==
    /\ file # None
    /\ loaded[nb] = None
    /\ loaded' = [loaded EXCEPT ![nb] = file]
    /\ UNCHANGED <<pc2, orig, X, sparse, stored, csr, file>>
    /\ UNCHANGED <<reconVars, topkVars, nbVars, mlmVars, ckptVars, accVars>>

Next ==
    \/ LogBaseChange
    \/ ClampNegatives
    \/ WriteH5ad
    \/ CsrMatrix
    \/ RestOfNotebook2
    \/ \E nb \in Readers : ReadH5ad(nb)

Spec == Init /\ [][Next]_vars

TypeOK ==
    /\ pc2 \in {"loaded", "log10", "clamped", "saved", "benchmarked", "done"}
    /\ X \in [Pos -> Int]
    /\ sparse \in BOOLEAN
    /\ stored \subseteq Pos

\* C9: once the clamping cell of notebook 2 has run, adata.X holds no
\* negative value, sparse or dense, at every later cell of the notebook; so
\* do the matrix written to ./data/pbmc3k_final.h5ad, the csr_matrix copy,
\* and the matrix each of notebooks 3 to 6 reads from that file.
C9_NoNegativeAfterClamp ==
    /\ pc2 \in {"clamped", "saved", "benchmarked", "done"} => NoNegative(X)
    /\ file # None => NoNegative(file)
    /\ csr # None => NoNegative(csr)
    /\ \A nb \in Readers : loaded[nb] # None => NoNegative(loaded[nb])

\* C9 witness: a sparse dataset that held negative stored values, clamped,
\* written, the notebook run to its end, and the file read by notebook 3.
C9_Witness ==
    /\ sparse
    /\ \E p \in stored : orig[p] = -230
    /\ \E p \in stored : orig[p] = -1
    /\ pc2 = "done"
    /\ file = X
    /\ loaded[3] = file

(***************************************************************************)
(* Notebook 2, from the benchmark cell to the stacked reconstruction.      *)
(* benchmark_expression_conversion and                                     *)
(* reconstruct_expression_from_cell_sentence are library calls: the model  *)
(* records that the first leaves a metrics file of some rows and with what *)
(* arguments the second is called, not what either computes.               *)
(***************************************************************************)

\* Most rows c2s_transformation_metrics.csv is modelled with.
MaxRows == 2

\* Fitted values a metrics row may hold.
Slopes == {-1, 1}

Intercepts == {2, 3}

Rows == [slope : Slopes, intercept : Intercepts]

RowSeqs == UNION {[1..n -> Rows] : n \in 0..MaxRows}

\* A bound name or an existing file; an unbound or missing one is None.
Some(v) == <<v>>

\* metrics_df.iloc[-1]
LastRow(df) == df[Len(df)]

\* metrics_df.iloc[0]
FirstRow(df) == df[1]

\* The state of notebook 2 before the benchmark cell: no metrics file yet,
\* slope and intercept unbound.
ReconInit ==
    /\ pcR = "start"
    /\ metricsFile = None
    /\ metricsDf = None
    /\ slope = None
    /\ intercept = None
    /\ calls = << >>
    /\ PrepIdle /\ TopKIdle /\ NbIdle /\ MlmIdle /\ CkptIdle /\ AccIdle

\* benchmark_expression_conversion(benchmark_output_dir=output_path, ...):
\* a synchronous call; when it returns, the metrics file is on disk.
Benchmark ==
    /\ pcR = "start"
    /\ \E rows \in RowSeqs : metricsFile' = Some(rows)
    /\ pcR' = "benchmarked"
    /\ UNCHANGED <<metricsDf, slope, intercept, calls>>
    /\ UNCHANGED <<prepVars, topkVars, nbVars, mlmVars, ckptVars, accVars>>

\* metrics_df = pd.read_csv(os.path.join(output_path, ..., "c2s_transformation_metrics.csv"))
ReadMetrics ==
    /\ pcR = "benchmarked"
    /\ metricsFile # None
    /\ metricsDf' = metricsFile
    /\ pcR' = "read"
    /\ UNCHANGED <<metricsFile, slope, intercept, calls>>
    /\ UNCHANGED <<prepVars, topkVars, nbVars, mlmVars, ckptVars, accVars>>

\* slope = metrics_df.iloc[0]["slope"]; intercept = metrics_df.iloc[0]["intercept"]
\* iloc[0] of a frame without rows raises, and the names stay unbound.
SetSlopeIntercept ==
    /\ pcR = "read"
    /\ Len(metricsDf[1]) >= 1
    /\ slope' = Some(FirstRow(metricsDf[1]).slope)
    /\ intercept' = Some(FirstRow(metricsDf[1]).intercept)
    /\ pcR' = "fitted"
    /\ UNCHANGED <<metricsFile, metricsDf, calls>>
    /\ UNCHANGED <<prepVars, topkVars, nbVars, mlmVars, ckptVars, accVars>>

\* vocab_list = list(vocabulary.keys())
MakeVocabList ==
    /\ pcR = "fitted"
    /\ pcR' = "vocab"
    /\ UNCHANGED <<metricsFile, metricsDf, slope, intercept, calls>>
    /\ UNCHANGED <<prepVars, topkVars, nbVars, mlmVars, ckptVars, accVars>>

\* The arguments of one reconstruct_expression_from_cell_sentence call on
\* cell_sentences_list[idx].
CallArgs(idx) == [idx |-> idx, slope |-> slope[1], intercept |-> intercept[1]]

\* expression_vector = reconstruct_expression_from_cell_sentence(
\*     cell_sentence_str=cell_sentences_list[0], ..., slope=slope, intercept=intercept)
ReconstructSingle ==
    /\ pcR = "vocab"
    /\ NumCells >= 1
    /\ calls' = Append(calls, CallArgs(0))
    /\ pcR' = "loop"
    /\ UNCHANGED <<metricsFile, metricsDf, slope, intercept>>
    /\ UNCHANGED <<prepVars, topkVars, nbVars, mlmVars, ckptVars, accVars>>

\* for idx in range(len(cell_sentences_list)): one iteration.  The loop has
\* made Len(calls) - 1 calls after the single call above.
ReconstructLoopStep ==
    /\ pcR = "loop"
    /\ Len(calls) - 1 < NumCells
    /\ calls' = Append(calls, CallArgs(Len(calls) - 1))
    /\ UNCHANGED <<pcR, metricsFile, metricsDf, slope, intercept>>
    /\ UNCHANGED <<prepVars, topkVars, nbVars, mlmVars, ckptVars, accVars>>

\* all_reconstructed_expression_vectors = np.stack(...)
StackVectors ==
    /\ pcR = "loop"
    /\ Len(calls) - 1 = NumCells
    /\ pcR' = "stacked"
    /\ UNCHANGED <<metricsFile, metricsDf, slope, intercept, calls>>
    /\ UNCHANGED <<prepVars, topkVars, nbVars, mlmVars, ckptVars, accVars>>

ReconNext ==
    \/ Benchmark
    \/ ReadMetrics
    \/ SetSlopeIntercept
    \/ MakeVocabList
    \/ ReconstructSingle
    \/ ReconstructLoopStep
    \/ StackVectors

SpecRecon == ReconInit /\ [][ReconNext]_vars

\* C17: in notebook 2 the metrics file is read only once the benchmark call
\* has returned and holds what that call wrote; slope and intercept are those
\* of the first row of metrics_df; every reconstruct call is made after slope
\* and intercept are bound and is given exactly these two values.
C17_SequentialOrder ==
    /\ metricsDf # None =>
          /\ pcR # "start"
          /\ metricsFile # None
          /\ metricsDf = metricsFile
    /\ slope # None =>
          /\ metricsDf # None
          /\ Len(metricsDf[1]) >= 1
          /\ slope = Some(metricsDf[1][1].slope)
          /\ intercept = Some(metricsDf[1][1].intercept)
    /\ \A i \in 1..Len(calls) :
          /\ slope # None /\ intercept # None
          /\ calls[i].slope = slope[1]
          /\ calls[i].intercept = intercept[1]
    /\ (slope = None) = (intercept = None)

\* C17 witness: a metrics file of two different rows, read after the
\* benchmark, and the whole reconstruction loop run with the first row's fit.
C17_Witness ==
    /\ pcR = "stacked"
    /\ metricsDf # None
    /\ Len(metricsDf[1]) = 2
    /\ metricsDf[1][1] # metricsDf[1][2]
    /\ Len(calls) = NumCells + 1


\* The part of the reconstruction loop that the notebook itself decides: the
\* j-th turn of the loop is given cell_sentences_list[j - 1] and the slope
\* and intercept every other call is given, so row j - 1 of the stacked
\* matrix comes from the (j - 1)-th sentence of the list.
ReconLoopInOrder ==
    \A j \in 2..Len(calls) :
        /\ calls[j].idx = j - 2
        /\ calls[j].slope = calls[1].slope
        /\ calls[j].intercept = calls[1].intercept


(***************************************************************************)
(* The top-k cell of notebooks 3 to 6:                                     *)
(*   k = 100                                                               *)
(*   arrow_ds = arrow_ds.map(lambda x:                                     *)
(*       {"cell_sentence": " ".join(x["cell_sentence"].split()[:k])})      *)
(* The lambda acts on each row by itself, so one row is followed.  A       *)
(* sentence is a string, a sequence of characters; k ranges over 0..MaxK,  *)
(* with sentences long enough for the cut to happen.                       *)
(***************************************************************************)

\* Longest sentence string, in characters.
MaxStrLen == 5

\* Largest k.
MaxK == 2

\* How often the map cell is run on the same dataset.
MaxMaps == 2

\* Characters of a sentence: two that occur in gene names, and the space.
Chars == {"a", "b", " "}

Strings == UNION {[1..n -> Chars] : n \in 0..MaxStrLen}

Min(a, b) == IF a <= b THEN a ELSE b

\* str.split() from position i on, cur being the word read so far: words
\* are the maximal runs without whitespace; empty words are never produced.
RECURSIVE SplitFrom(_, _, _)
SplitFrom(str, i, cur) ==
    IF i > Len(str)
    THEN IF cur = << >> THEN << >> ELSE <<cur>>
    ELSE IF str[i] = " "
         THEN IF cur = << >>
              THEN SplitFrom(str, i + 1, << >>)
              ELSE <<cur>> \o SplitFrom(str, i + 1, << >>)
         ELSE SplitFrom(str, i + 1, Append(cur, str[i]))

\* x["cell_sentence"].split()
Split(str) == SplitFrom(str, 1, << >>)

\* words[:kk + 1]
TakeOneMore(words, kk) == SubSeq(words, 1, Min(kk + 1, Len(words)))

\* words[:kk] for kk >= 0
Take(words, kk) == SubSeq(words, 1, Min(kk, Len(words)))

\* " ".join(words)
RECURSIVE Join(_)
Join(words) ==
    IF words = << >> THEN << >>
    ELSE IF Len(words) = 1 THEN words[1]
    ELSE words[1] \o <<" ">> \o Join(Tail(words))

\* The lambda of the map.
TopKMap(str, kk) == Join(Take(Split(str), kk))

\* A row of the dataset adata_to_arrow returned, and the k of the cell.
TopKInit ==
    /\ sentence \in Strings
    /\ before = sentence
    /\ prev = sentence
    /\ k \in 0..MaxK
    /\ mapCount = 0
    /\ PrepIdle /\ ReconIdle /\ NbIdle /\ MlmIdle /\ CkptIdle /\ AccIdle

\* arrow_ds = arrow_ds.map(lambda x: ...): the row's cell_sentence is
\* replaced by the lambda's value.
ApplyMap ==
    /\ mapCount < MaxMaps
    /\ prev' = sentence
    /\ sentence' = TopKMap(sentence, k)
    /\ mapCount' = mapCount + 1
    /\ UNCHANGED <<before, k>>
    /\ UNCHANGED <<prepVars, reconVars, nbVars, mlmVars, ckptVars, accVars>>

TopKNext == ApplyMap

SpecTopK == TopKInit /\ [][TopKNext]_vars

\* C18: after the top-k map a sentence holds exactly the first min(k, n)
\* genes of the n genes it held, in the same order, hence at most k genes;
\* a sentence whose genes were joined by single spaces becomes a prefix of
\* itself as a string; applying the map a second time leaves the sentence
\* as it is.
C18_TopKPrefix ==
    mapCount >= 1 =>
        LET w == Split(sentence)
            o == Split(before)
        IN  /\ Len(w) = Min(k, Len(o))
            /\ Len(w) <= k
            /\ \A i \in 1..Len(w) : w[i] = o[i]
            /\ Join(o) = before => sentence = SubSeq(before, 1, Len(sentence))
            /\ mapCount >= 2 => sentence = prev

\* C18 witness: a sentence of more than k genes, k >= 1, mapped twice.
C18_Witness ==
    /\ mapCount = 2
    /\ k >= 1
    /\ Len(Split(before)) > k
    /\ sentence # before


(***************************************************************************)
(* Notebooks 3 to 6 after read_h5ad: each builds the cell sentences, cuts  *)
(* them to k genes and then calls the model (predict_cell_types_of_data in *)
(* notebooks 3 and 5, fine_tune in notebook 4,                             *)
(* generate_cells_conditioned_on_cell_type in notebook 6) with a number of *)
(* genes written as a literal of its own.                                  *)
(***************************************************************************)

\* k = 100 of the truncation cell of notebooks 3, 4, 5, 6.
K3 == 100

K4 == 100

K5 == 100

K6 == 100

\* n_genes=100 (notebooks 3, 5, 6) and top_k_genes=100 (notebook 4).
NGenes3 == 100

TopKGenes4 == 100

NGenes5 == 100

NGenes6 == 100

KOf(nb) == CASE nb = 3 -> K3 [] nb = 4 -> K4 [] nb = 5 -> K5 [] nb = 6 -> K6

\* A call of notebook 5 left at another number of genes.
NGenesStale(nb) == IF nb = 5 THEN 200 ELSE 100

\* The literal given to the model call of notebook nb.
NGenesOf(nb) ==
    CASE nb = 3 -> NGenes3 [] nb = 4 -> TopKGenes4
      [] nb = 5 -> NGenes5 [] nb = 6 -> NGenes6

\* Every notebook has read the file; nothing is cut or called yet.
NbInit ==
    /\ stage = [nb \in Readers |-> "loaded"]
    /\ kUsed = [nb \in Readers |-> 0]
    /\ nGenesArg = [nb \in Readers |-> 0]
    /\ PrepIdle /\ ReconIdle /\ TopKIdle /\ MlmIdle /\ CkptIdle /\ AccIdle

\* arrow_ds, vocabulary = cs.CSData.adata_to_arrow(adata=adata, ...)
AdataToArrow(nb) ==
    /\ stage[nb] = "loaded"
    /\ stage' = [stage EXCEPT ![nb] = "arrow"]
    /\ UNCHANGED <<kUsed, nGenesArg>>
    /\ UNCHANGED <<prepVars, reconVars, topkVars, mlmVars, ckptVars, accVars>>

\* k = 100; arrow_ds = arrow_ds.map(lambda x: ... split()[:k] ...)
TruncateTopK(nb) ==
    /\ stage[nb] = "arrow"
    /\ kUsed' = [kUsed EXCEPT ![nb] = KOf(nb)]
    /\ stage' = [stage EXCEPT ![nb] = "truncated"]
    /\ UNCHANGED nGenesArg
    /\ UNCHANGED <<prepVars, reconVars, topkVars, mlmVars, ckptVars, accVars>>

\* The model call on the data derived from the cut arrow_ds.
ModelCall(nb) ==
    /\ stage[nb] = "truncated"
    /\ nGenesArg' = [nGenesArg EXCEPT ![nb] = NGenesOf(nb)]
    /\ stage' = [stage EXCEPT ![nb] = "called"]
    /\ UNCHANGED kUsed
    /\ UNCHANGED <<prepVars, reconVars, topkVars, mlmVars, ckptVars, accVars>>

NbNext ==
    \/ \E nb \in Readers : AdataToArrow(nb)
    \/ \E nb \in Readers : TruncateTopK(nb)
    \/ \E nb \in Readers : ModelCall(nb)

SpecNotebooks == NbInit /\ [][NbNext]_vars

\* C19: in every notebook the number of genes given to the model call is
\* the k its cell sentences were cut to beforehand.
C19_GenesMatchK ==
    \A nb \in Readers :
        stage[nb] = "called" =>
            /\ kUsed[nb] > 0
            /\ nGenesArg[nb] = kUsed[nb]

\* C19 witness: all four notebooks have cut their sentences and called the
\* model.
C19_Witness ==
    \A nb \in Readers : stage[nb] = "called" /\ nGenesArg[nb] = 100


(***************************************************************************)
(* The pathway-activity notebook: dc.run_mlm(mat=adata, net=progeny, ...)  *)
(* stores its scores and p-values in adata.obsm['mlm_estimate'] and        *)
(* adata.obsm['mlm_pvals']; the next cell copies both to the keys          *)
(* progeny_mlm_estimate and progeny_mlm_pvals.  The notebook's note says   *)
(* that each run of run_mlm overwrites what is inside the two mlm keys, so *)
(* further runs with other resources are modelled after the copy.          *)
(*                                                                         *)
(* adata.obsm maps a key to a table object.  Whether a run binds the key   *)
(* to a new table or rewrites the table the key already holds is not       *)
(* visible from the notebook: both are modelled.                           *)
(***************************************************************************)

\* Most run_mlm calls on the same AnnData object.
MaxRuns == 5

\* The resource of the notebook and two other resources.
Nets == {"progeny", "netB", "netC"}

ObsmKeys == {"mlm_estimate", "mlm_pvals", "progeny_mlm_estimate", "progeny_mlm_pvals"}

\* The table of kind "estimate" or "pvals" that a run with resource net
\* yields for this adata.
Result(kind, net) == <<kind, net>>

\* The table itself, not a copy.
AliasOf(h, id) == [heap |-> h, ref |-> id]

\* table.copy(): a new object holding the same table.
CopyOf(h, id) == [heap |-> Append(h, h[id]), ref |-> Len(h) + 1]

\* adata = sc.datasets.pbmc3k_processed(): no mlm result in adata.obsm.
MlmInit ==
    /\ pcM = "start"
    /\ obsm = [key \in ObsmKeys |-> 0]
    /\ heap = << >>
    /\ copied = None
    /\ lastRun = "none"
    /\ runs = 0
    /\ PrepIdle /\ ReconIdle /\ TopKIdle /\ NbIdle /\ CkptIdle /\ AccIdle

\* run_mlm binding the two keys to new tables.
RunMlmRebind(net) ==
    /\ heap' = heap \o <<Result("estimate", net), Result("pvals", net)>>
    /\ obsm' = [obsm EXCEPT !["mlm_estimate"] = Len(heap) + 1,
                            !["mlm_pvals"] = Len(heap) + 2]

\* run_mlm rewriting the tables the two keys already hold.
RunMlmInPlace(net) ==
    /\ obsm["mlm_estimate"] # 0 /\ obsm["mlm_pvals"] # 0
    /\ heap' = [heap EXCEPT ![obsm["mlm_estimate"]] = Result("estimate", net),
                            ![obsm["mlm_pvals"]] = Result("pvals", net)]
    /\ UNCHANGED obsm

\* dc.run_mlm(mat=adata, net=progeny, source='source', target='target',
\*            weight='weight', verbose=True)
RunMlmFirst ==
    /\ pcM = "start"
    /\ RunMlmRebind("progeny")
    /\ lastRun' = "progeny"
    /\ runs' = 1
    /\ pcM' = "ran"
    /\ UNCHANGED copied
    /\ UNCHANGED <<prepVars, reconVars, topkVars, nbVars, ckptVars, accVars>>

\* adata.obsm['progeny_mlm_estimate'] = adata.obsm['mlm_estimate'].copy()
\* adata.obsm['progeny_mlm_pvals'] = adata.obsm['mlm_pvals'].copy()
CopyToProgeny ==
    /\ pcM = "ran"
    /\ LET c1 == CopyOf(heap, obsm["mlm_estimate"])
           c2 == CopyOf(c1.heap, obsm["mlm_pvals"])
       IN  /\ heap' = c2.heap
           /\ obsm' = [obsm EXCEPT !["progeny_mlm_estimate"] = c1.ref,
                                   !["progeny_mlm_pvals"] = c2.ref]
    /\ copied' = [estimate |-> heap[obsm["mlm_estimate"]],
                  pvals |-> heap[obsm["mlm_pvals"]]]
    /\ pcM' = "copied"
    /\ UNCHANGED <<lastRun, runs>>
    /\ UNCHANGED <<prepVars, reconVars, topkVars, nbVars, ckptVars, accVars>>

\* A later run_mlm on the same adata with any resource.
RunMlmAgain(net) ==
    /\ pcM = "copied"
    /\ runs < MaxRuns
    /\ RunMlmRebind(net) \/ RunMlmInPlace(net)
    /\ lastRun' = net
    /\ runs' = runs + 1
    /\ UNCHANGED <<pcM, copied>>
    /\ UNCHANGED <<prepVars, reconVars, topkVars, nbVars, ckptVars, accVars>>

MlmNext ==
    \/ RunMlmFirst
    \/ CopyToProgeny
    \/ \E net \in Nets : RunMlmAgain(net)

SpecMlm == MlmInit /\ [][MlmNext]_vars

Times == {"2025-04-03-14_05_09", "2025-04-03-14_05_10", "2025-04-03-14_05_11",
          "2026-01-01-00_00_00"}

\* The step of the last checkpoint directory the trainer leaves: which
\* steps it saves is the trainer's decision (save_steps=100 and the length
\* of the run), so both a multiple of save_steps and the final step stay open.
SavedSteps == {"300", "330"}

RECURSIVE SplitSlashFrom(_, _, _, _)
SplitSlashFrom(p, i, cur, acc) ==
    IF i > Len(p) THEN Append(acc, cur)
    ELSE IF p[i] = "/" THEN SplitSlashFrom(p, i + 1, << >>, Append(acc, cur))
    ELSE SplitSlashFrom(p, i + 1, Append(cur, p[i]), acc)

\* p.split("/")
SplitSlash(p) == SplitSlashFrom(p, 1, << >>, << >>)

\* "/".join(parts)
RECURSIVE JoinSlash(_)
JoinSlash(parts) ==
    IF Len(parts) = 0 THEN << >>
    ELSE IF Len(parts) = 1 THEN parts[1]
    ELSE parts[1] \o <<"/">> \o JoinSlash(Tail(parts))

\* parts[:-1]
DropLast(parts) == SubSeq(parts, 1, Len(parts) - 1)

\* base_path = "/".join(cell_type_prediction_model_path.split("/")[:-1])
BasePathOf(path) == JoinSlash(DropLast(SplitSlash(path)))

\* os.path.join(a, b) for a relative b.
OsPathJoin(a, b) ==
    IF a = << >> THEN b
    ELSE IF a[Len(a)] = "/" THEN a \o b
    ELSE a \o <<"/">> \o b

\* save_dir = "./c2s_api_testing/csmodel_tutorial_3", the same in both
\* notebooks; csmodel.save_dir is the save_dir given to CSModel.
SaveDir == <<".", "/", "c2s_api_testing", "/", "csmodel_tutorial_3">>

\* training_task = "cell_type_prediction"
TrainingTask == <<"cell_type_prediction">>

\* output_dir = os.path.join(csmodel.save_dir,
\*                           datetimestamp + f"_finetune_{training_task}")
OutputDir(datetimestamp) ==
    OsPathJoin(SaveDir, <<datetimestamp, "_finetune_">> \o TrainingTask)

\* cell_type_prediction_model_path of notebook 5, as written there.
CellTypePredictionModelPath ==
    <<".", "/", "c2s_api_testing", "/", "csmodel_tutorial_3", "/",
      "2025-04-03-14_05_10", "_finetune_", "cell_type_prediction", "/",
      "checkpoint-", "330">>

CheckpointDir(dir, step) == OsPathJoin(dir, <<"checkpoint-", step>>)

SplitFile(dir) == OsPathJoin(dir, <<"data_split_indices_dict.pkl">>)

\* What a completed session leaves in its output directory: the directory,
\* its last checkpoint, the split indices beside it.
SessionFiles(dir, step) == {dir, CheckpointDir(dir, step), SplitFile(dir)}

\* The disk before anything runs: empty, or holding the session whose
\* directory notebook 5 names.
CkptInit ==
    /\ pcT = "start" /\ pcL = "start"
    /\ now = "none" /\ outputDir = << >>
    /\ \E old \in BOOLEAN :
          LET dir == OutputDir("2025-04-03-14_05_10")
          IN  /\ fs = IF old THEN SessionFiles(dir, "330") ELSE {}
              /\ created = IF old THEN {dir} ELSE {}
              /\ tuned = IF old THEN {dir} ELSE {}
    /\ modelFound = FALSE /\ basePath = << >> /\ splitLoaded = "no"
    /\ PrepIdle /\ ReconIdle /\ TopKIdle /\ NbIdle /\ MlmIdle /\ AccIdle

\* Notebook 4: datetimestamp = datetime.now().strftime(...)
\*             output_dir = os.path.join(...)
\*             if not os.path.exists(output_dir): os.mkdir(output_dir)
MakeOutputDir(t) ==
    /\ pcT = "start"
    /\ now' = t
    /\ outputDir' = OutputDir(t)
    /\ fs' = fs \cup {OutputDir(t)}
    /\ created' = created \cup {OutputDir(t)}
    /\ pcT' = "named"
    /\ UNCHANGED <<tuned, pcL, modelFound, basePath, splitLoaded>>
    /\ UNCHANGED <<prepVars, reconVars, topkVars, nbVars, mlmVars, accVars>>

\* Notebook 4: csmodel.fine_tune(..., train_args=train_args, ...) with
\* train_args.output_dir = output_dir: the checkpoints and the split
\* indices are saved in output_dir.
FineTune(step) ==
    /\ pcT = "named"
    /\ fs' = fs \cup SessionFiles(outputDir, step)
    /\ tuned' = tuned \cup {outputDir}
    /\ pcT' = "tuned"
    /\ UNCHANGED <<now, outputDir, created, pcL, modelFound, basePath, splitLoaded>>
    /\ UNCHANGED <<prepVars, reconVars, topkVars, nbVars, mlmVars, accVars>>

\* Notebook 5: csmodel = cs.CSModel(
\*     model_name_or_path=cell_type_prediction_model_path, ...)
\* The checkpoint can be read only if the directory is on disk.
DefineCSModel ==
    /\ pcL = "start"
    /\ modelFound' = (CellTypePredictionModelPath \in fs)
    /\ pcL' = "model"
    /\ UNCHANGED <<pcT, now, outputDir, fs, created, tuned, basePath, splitLoaded>>
    /\ UNCHANGED <<prepVars, reconVars, topkVars, nbVars, mlmVars, accVars>>

\* Notebook 5: base_path = "/".join(...split("/")[:-1])
ComputeBasePath ==
    /\ pcL = "model"
    /\ basePath' = BasePathOf(CellTypePredictionModelPath)
    /\ pcL' = "base"
    /\ UNCHANGED <<pcT, now, outputDir, fs, created, tuned, modelFound, splitLoaded>>
    /\ UNCHANGED <<prepVars, reconVars, topkVars, nbVars, mlmVars, accVars>>

\* Notebook 5: with open(os.path.join(base_path,
\*                  'data_split_indices_dict.pkl'), 'rb') as f: pickle.load(f)
\* open raises FileNotFoundError when the file is not on disk.
LoadSplitIndices ==
    /\ pcL = "base"
    /\ splitLoaded' = IF SplitFile(basePath) \in fs THEN "yes" ELSE "error"
    /\ pcL' = "split"
    /\ UNCHANGED <<pcT, now, outputDir, fs, created, tuned, modelFound, basePath>>
    /\ UNCHANGED <<prepVars, reconVars, topkVars, nbVars, mlmVars, accVars>>

CkptNext ==
    \/ \E t \in Times : MakeOutputDir(t)
    \/ \E step \in SavedSteps : FineTune(step)
    \/ DefineCSModel
    \/ ComputeBasePath
    \/ LoadSplitIndices

SpecCkpt == CkptInit /\ [][CkptNext]_vars

\* C24: once notebook 4 has fine-tuned and notebook 5 has named its model,
\* the model path is a checkpoint directory inside an output directory that
\* notebook 4 created, base_path is that directory, and the model and the
\* split indices are found only in a directory where fine_tune completed.
C24_LoadsCheckpointOfNotebook4 ==
    (pcT = "tuned" /\ pcL # "start") =>
        /\ \E dir \in created, step \in SavedSteps :
              CellTypePredictionModelPath = CheckpointDir(dir, step)
        /\ pcL \in {"base", "split"} => basePath \in created
        /\ modelFound => BasePathOf(CellTypePredictionModelPath) \in tuned
        /\ splitLoaded = "yes" => basePath \in tuned

\* ---------------------------------------------------------------------
\* Notebook 5: the accuracy of the predictions.
\*
\* A string is the sequence of its characters.

MaxPreds == 2

\* Predictions the model may give: empty, a label, a label followed by one
\* or two periods, a period alone.
PredStrings ==
    {<< >>, <<"T">>, <<"B">>, <<".">>, <<"T", ".">>, <<"T", ".", ".">>}

\* Values of the cell_type column.
LabelStrings == {<<"T">>, <<"B">>, <<"T", ".">>}

ListsOf(S) == UNION {[1..n -> S] : n \in 0..MaxPreds}

\* model_pred[:-1] whatever the last character.
StripLast(s) == SubSeq(s, 1, Len(s) - 1)

\* if model_pred[-1] == ".": model_pred = model_pred[:-1]
StripPeriod(s) == IF s[Len(s)] = "." THEN SubSeq(s, 1, Len(s) - 1) ELSE s

\* predicted_cell_types and test_ds["cell_type"] before the loop;
\* total_correct = 0.0
AccInit ==
    /\ pcA = "loop"
    /\ predicted_cell_types \in ListsOf(PredStrings)
    /\ cell_type \in ListsOf(LabelStrings)
    /\ idxA = 0
    /\ total_correct = 0
    /\ accuracy = None
    /\ PrepIdle /\ ReconIdle /\ TopKIdle /\ NbIdle /\ MlmIdle /\ CkptIdle

\* One turn of
\*   for model_pred, gt_label in zip(predicted_cell_types, test_ds["cell_type"]):
\* zip stops with the shorter list; model_pred[-1] of an empty string
\* raises IndexError.
AccLoopStep ==
    /\ pcA = "loop"
    /\ idxA < Min(Len(predicted_cell_types), Len(cell_type))
    /\ LET model_pred == predicted_cell_types[idxA + 1]
           gt_label == cell_type[idxA + 1]
       IN  IF model_pred = << >>
           THEN /\ pcA' = "IndexError"
                /\ UNCHANGED <<idxA, total_correct>>
           ELSE /\ total_correct' = IF StripPeriod(model_pred) = gt_label
                                    THEN total_correct + 1
                                    ELSE total_correct
                /\ idxA' = idxA + 1
                /\ UNCHANGED pcA
    /\ UNCHANGED <<predicted_cell_types, cell_type, accuracy>>
    /\ UNCHANGED <<prepVars, reconVars, topkVars, nbVars, mlmVars, ckptVars>>

\* accuracy = total_correct / len(predicted_cell_types), kept as the pair
\* <<numerator, denominator>>; a division by zero raises.
ComputeAccuracy ==
    /\ pcA = "loop"
    /\ idxA = Min(Len(predicted_cell_types), Len(cell_type))
    /\ IF Len(predicted_cell_types) = 0
       THEN /\ pcA' = "ZeroDivisionError"
            /\ UNCHANGED accuracy
       ELSE /\ pcA' = "done"
            /\ accuracy' = Some(<<total_correct, Len(predicted_cell_types)>>)
    /\ UNCHANGED <<predicted_cell_types, cell_type, idxA, total_correct>>
    /\ UNCHANGED <<prepVars, reconVars, topkVars, nbVars, mlmVars, ckptVars>>

AccNext ==
    \/ AccLoopStep
    \/ ComputeAccuracy

SpecAcc == AccInit /\ [][AccNext]_vars

\* C25: for a non-empty list of non-empty predictions of the same length as
\* the labels, the loop raises nothing, and prediction i has been counted
\* exactly when it equals label i once at most one trailing period is taken
\* off it; the accuracy is that count over the number of predictions, which
\* lies between 0 and 1.
C25_AccuracyCount ==
    LET n == Len(predicted_cell_types)
        OnePeriodOff(s) ==
            IF s[Len(s)] = "." THEN [j \in 1..(Len(s) - 1) |-> s[j]] ELSE s
        Correct(upto) ==
            {i \in 1..upto : OnePeriodOff(predicted_cell_types[i]) = cell_type[i]}
    IN  (/\ n >= 1
         /\ Len(cell_type) = n
         /\ \A i \in 1..n : predicted_cell_types[i] # << >>) =>
            /\ pcA \in {"loop", "done"}
            /\ total_correct = Cardinality(Correct(idxA))
            /\ pcA = "done" =>
                  /\ idxA = n
                  /\ accuracy = Some(<<Cardinality(Correct(n)), n>>)
                  /\ 0 <= accuracy[1][1]
                  /\ accuracy[1][1] <= accuracy[1][2]
                  /\ accuracy[1][2] > 0

\* C25 witness: two predictions ending in periods; "T." counts for the
\* label "T", "T.." does not, and the accuracy is 1/2.
C25_Witness ==
    /\ pcA = "done"
    /\ predicted_cell_types = << <<"T", ".">>, <<"T", ".", ".">> >>
    /\ cell_type = << <<"T">>, <<"T">> >>
    /\ total_correct = 1
    /\ accuracy = Some(<<1, 2>>)


====
